---- MODULE Spec2Model ----
(***************************************************************************)
(* PlaybackManager of core/playback.py: the playback queue, the current    *)
(* index, the playback mode, the deferred play_next timers and the part of *)
(* QMediaPlayer the manager reads and commands.                            *)
(***************************************************************************)
EXTENDS Integers, Sequences, FiniteSets, TLC

\* ---------------------------------------------------------------- bounds
\* Longest track list a caller passes to set_playlist.
MaxLen == 3
\* Most QTimer.singleShot(.., play_next) calls pending at once.
MaxTimers == 1
\* Most playback_error signals counted in one run of deferred play_next calls.
MaxErrors == 3

\* ------------------------------------------------------- program constants
NORMAL == 0
REPEAT_ONE == 1
REPEAT_ALL == 2
SHUFFLE == 3
RestartThresholdMs == 3000
DEFAULT_VOLUME == 50
MaxVolume == 100

Modes == {NORMAL, REPEAT_ONE, REPEAT_ALL, SHUFFLE}

\* Python's None (no track, no start_track_id, no source). Database ids start
\* at 1, so 0 also stands for every falsy id.
None == 0

\* Track identifiers known to callers; the database rows are a subset.
Ids == {1, 2, 3}

\* Track lists a caller may pass to set_playlist: in library order, out of
\* order, with a duplicate, and the empty list.
ListPool ==
    {<<>>, <<3>>, <<1, 2, 3>>, <<3, 1, 2>>, <<2, 1, 2>>, <<1, 2, 3, 1>>}

TrackLists == {q \in ListPool : Len(q) <= MaxLen}

\* The tracks whose database row and file exist: none, all, all but the
\* middle one, only the middle one.
FileSets == {{}, {1, 3}, {2}, Ids}

\* start_track_id arguments: none, and an id the lists hold first, in the
\* middle, last, twice or not at all.
StartIds == {None, 2}

\* QMediaPlayer.position() values that matter to play_previous.
Positions == {0, RestartThresholdMs, RestartThresholdMs + 1}

\* set_volume arguments: below the range, its ends, inside it and above it.
Volumes == {-1, 0, DEFAULT_VOLUME + 1, MaxVolume, MaxVolume + 1}

VARIABLES
    current_track,              \* id of self.current_track, or None
    current_playlist_ids,       \* self.current_playlist_ids
    playback_queue_ids,         \* self.playback_queue_ids
    current_queue_index,        \* self.current_queue_index (0-based, -1 = none)
    playback_mode,              \* self.playback_mode
    playing_next_automatically, \* self._playing_next_automatically
    timers,                     \* pending QTimer.singleShot(.., self.play_next)
    player_state,               \* self.player.playbackState()
    player_source,              \* track whose file self.player.source() names
    player_position,            \* self.player.position()
    media_status,               \* self.player.mediaStatus()
    volume,                     \* self.volume
    files,                      \* ids with a database row and an existing file
    signals,                    \* signals emitted by the last handler
    commands,                   \* QMediaPlayer calls made by the last handler
    errors,                     \* playback_error signals since the last event that was no timer
    swept,                      \* indices tried since that event
    retried,                    \* an index was tried twice since that event
    supplied,                   \* track_ids of the last accepted set_playlist call
    nexts,                      \* play_next calls made in a row
    halted,                     \* the index was none at some point of that run
    awaited,                    \* a play_next scheduled at the end of a track is yet to load one
    origin,                     \* the last handler run that was no timer firing
    last                        \* the last handler run and the state it started from

vars == <<current_track, current_playlist_ids, playback_queue_ids,
          current_queue_index, playback_mode, playing_next_automatically,
          timers, player_state, player_source, player_position, media_status,
          volume, files, signals, commands, errors, swept, retried, supplied,
          nexts, halted, awaited, origin, last>>

\* ---------------------------------------------------------------- helpers
Range(q) == {q[i] : i \in 1..Len(q)}

\* list.index(x): 0-based index of the first occurrence.
IndexOf(q, x) == (CHOOSE i \in 1..Len(q) : q[i] = x /\ \A j \in 1..(i-1) : q[j] # x) - 1

\* q[i] of a Python list, 0-based.
At(q, i) == q[i + 1]

Count(q, x) == Cardinality({i \in 1..Len(q) : q[i] = x})

IsPermutation(p, q) ==
    /\ Len(p) = Len(q)
    /\ \A x \in Range(p) \cup Range(q) : Count(p, x) = Count(q, x)

\* Every order random.shuffle can leave the list in.
Shuffles(q) == {p \in [1..Len(q) -> Range(q)] : IsPermutation(p, q)}

\* Python truthiness of an optional int (None and 0 are false).
Truthy(x) == x # None

\* Python's min and max of two integers.
Min(a, b) == IF a <= b THEN a ELSE b
Max(a, b) == IF a >= b THEN a ELSE b

\* The manager and the player as one record, so that a handler is a function
\* from the state it starts in to the state it leaves.
Cur ==
    [current_track |-> current_track,
     current_playlist_ids |-> current_playlist_ids,
     playback_queue_ids |-> playback_queue_ids,
     current_queue_index |-> current_queue_index,
     playback_mode |-> playback_mode,
     playing_next_automatically |-> playing_next_automatically,
     timers |-> timers,
     player_state |-> player_state,
     player_source |-> player_source,
     player_position |-> player_position,
     media_status |-> media_status,
     signals |-> <<>>,
     commands |-> <<>>,
     errors |-> errors,
     swept |-> swept,
     retried |-> retried]

\* ---------------------------------------------------------- QMediaPlayer
player_setSource(s, id) ==
    [s EXCEPT !.player_source = id, !.player_state = "Stopped",
              !.player_position = 0, !.media_status = "Loading",
              !.commands = Append(@, "setSource")]

player_play(s) ==
    LET t == [s EXCEPT !.commands = Append(@, "play")]
    IN  IF s.media_status \in {"NoMedia", "Invalid"} THEN t
        ELSE [t EXCEPT !.player_state = "Playing"]

player_pause(s) ==
    LET t == [s EXCEPT !.commands = Append(@, "pause")]
    IN  IF s.player_state = "Playing" THEN [t EXCEPT !.player_state = "Paused"] ELSE t

player_stop(s) ==
    [s EXCEPT !.player_state = "Stopped", !.player_position = 0,
              !.commands = Append(@, "stop")]

player_setPosition(s, ms) ==
    [s EXCEPT !.player_position = ms, !.commands = Append(@, "setPosition")]

\* ------------------------------------------------------------- signals
emit(s, sig) == [s EXCEPT !.signals = Append(@, sig)]

emit_playback_error(s) ==
    [s EXCEPT !.signals = Append(@, "playback_error"), !.errors = @ + 1]

\* QTimer.singleShot(ms, self.play_next)
singleShot_play_next(s) == [s EXCEPT !.timers = @ + 1]

\* ------------------------------------------------------ PlaybackManager
\* stop() emptying the queue as well.
stop_clears_queue(s) ==
    LET a == player_stop(s)
        b == [a EXCEPT !.current_track = None, !.current_queue_index = -1,
                       !.playback_queue_ids = <<>>]
    IN  emit(b, "track_changed_None")

stop(s) ==
    LET a == player_stop(s)
        b == [a EXCEPT !.current_track = None, !.current_queue_index = -1]
    IN  emit(b, "track_changed_None")

\* The body shared by set_playlist and play_track_at_index: resolve the track
\* at current_queue_index and either load and play it or report and skip.
load_current(s) ==
    LET track_id == At(s.playback_queue_ids, s.current_queue_index)
        n == [s EXCEPT !.retried = @ \/ (s.current_queue_index \in s.swept),
                       !.swept = @ \cup {s.current_queue_index}]
    IN  IF track_id \in files
        THEN LET a == [n EXCEPT !.current_track = track_id,
                                !.playing_next_automatically = TRUE]
                 b == player_setSource(a, track_id)
                 c == player_play(b)
                 d == emit(c, "track_changed")
             IN  [d EXCEPT !.playing_next_automatically = FALSE]
        ELSE singleShot_play_next(emit_playback_error(n))

\* play_track_at_index ignoring an index outside the queue.
play_track_at_index_ignores_invalid(s, index) ==
    IF 0 <= index /\ index < Len(s.playback_queue_ids)
    THEN load_current([s EXCEPT !.current_queue_index = index])
    ELSE s

play_track_at_index(s, index) ==
    IF 0 <= index /\ index < Len(s.playback_queue_ids)
    THEN load_current([s EXCEPT !.current_queue_index = index])
    ELSE stop(s)

\* set_playlist starting at index 0 whatever start_track_id is.
set_playlist_ignores_start(s, track_ids, playlist_mode, start_track_id) ==
    IF track_ids = <<>> THEN s
    ELSE load_current([s EXCEPT !.playback_queue_ids = track_ids,
                                !.playback_mode = playlist_mode,
                                !.current_queue_index = 0])

\* set_playlist storing the mode before it looks at track_ids.
set_playlist_sets_mode_first(s, track_ids, playlist_mode, start_track_id) ==
    LET m == [s EXCEPT !.playback_mode = playlist_mode]
    IN  IF track_ids = <<>> THEN m
        ELSE LET idx == IF start_track_id # None /\ start_track_id \in Range(track_ids)
                        THEN IndexOf(track_ids, start_track_id)
                        ELSE 0
             IN  load_current([m EXCEPT !.playback_queue_ids = track_ids,
                                        !.current_queue_index = idx])

set_playlist(s, track_ids, playlist_mode, start_track_id) ==
    IF track_ids = <<>> THEN s
    ELSE LET idx == IF start_track_id # None /\ start_track_id \in Range(track_ids)
                    THEN IndexOf(track_ids, start_track_id)
                    ELSE 0
         IN  load_current([s EXCEPT !.playback_queue_ids = track_ids,
                                    !.playback_mode = playlist_mode,
                                    !.current_queue_index = idx])

\* play() starting the queue over whenever the player is not paused.
play_from_start(s) ==
    IF s.player_state = "Paused" THEN player_play(s)
    ELSE IF s.playback_queue_ids # <<>> THEN play_track_at_index(s, 0)
         ELSE s

play(s) ==
    IF s.player_state = "Paused" THEN player_play(s)
    ELSE IF s.current_queue_index # -1 /\ s.current_track # None
         THEN emit(player_play(s), "track_changed")
         ELSE IF s.playback_queue_ids # <<>> THEN play_track_at_index(s, 0)
              ELSE s

pause(s) == IF s.player_state = "Playing" THEN player_pause(s) ELSE s

\* play_next with REPEAT_ONE treated like the other modes.
next_index_always_advances(s) ==
    LET n == s.current_queue_index + 1
    IN  IF n >= Len(s.playback_queue_ids)
        THEN IF s.playback_mode \in {REPEAT_ALL, SHUFFLE} THEN 0 ELSE -2
        ELSE n

\* play_next wrapping to the start in every mode.
next_index_always_wraps(s) ==
    LET n == IF s.playback_mode = REPEAT_ONE THEN s.current_queue_index
             ELSE s.current_queue_index + 1
    IN  IF n >= Len(s.playback_queue_ids) THEN 0 ELSE n

\* The index play_next selects: -2 stands for the stop() of NORMAL mode at
\* the end of the queue, -1 for the fallback stop().
next_index(s) ==
    LET n == IF s.playback_mode = REPEAT_ONE THEN s.current_queue_index
             ELSE s.current_queue_index + 1
    IN  IF n >= Len(s.playback_queue_ids)
        THEN IF s.playback_mode \in {REPEAT_ALL, SHUFFLE} THEN 0 ELSE -2
        ELSE n

\* play_next without the stop() at the end of the queue in NORMAL mode.
play_next_no_stop(s) ==
    IF s.playback_queue_ids = <<>> THEN stop(s)
    ELSE LET n == next_index(s)
         IN  IF n = -2 THEN s
             ELSE IF n # -1 THEN player_play(play_track_at_index(s, n))
                  ELSE stop(s)

play_next(s) ==
    IF s.playback_queue_ids = <<>> THEN stop(s)
    ELSE LET n == next_index(s)
         IN  IF n = -2 THEN stop(s)
             ELSE IF n # -1 THEN player_play(play_track_at_index(s, n))
                  ELSE stop(s)

\* play_previous without the wrap to the end of the queue.
prev_index_no_wrap(s) ==
    LET p == IF s.playback_mode = REPEAT_ONE THEN s.current_queue_index
             ELSE s.current_queue_index - 1
    IN  IF p < 0 THEN 0 ELSE p

\* play_previous wrapping to the end of the queue in every mode.
prev_index_always_wraps(s) ==
    LET p == IF s.playback_mode = REPEAT_ONE THEN s.current_queue_index
             ELSE s.current_queue_index - 1
    IN  IF p < 0 THEN Len(s.playback_queue_ids) - 1 ELSE p

\* The index play_previous selects once the early returns are passed.
prev_index(s) ==
    LET p == IF s.playback_mode = REPEAT_ONE THEN s.current_queue_index
             ELSE s.current_queue_index - 1
    IN  IF p < 0
        THEN IF s.playback_mode \in {REPEAT_ALL, SHUFFLE}
             THEN Len(s.playback_queue_ids) - 1
             ELSE 0
        ELSE p

\* play_previous without the restart of a track more than 3 s in.
play_previous_no_restart(s) ==
    IF s.playback_queue_ids = <<>> THEN stop(s)
    ELSE LET p == prev_index(s)
         IN  IF p # -1 THEN player_play(play_track_at_index(s, p))
             ELSE stop(s)

play_previous(s) ==
    IF s.player_position > RestartThresholdMs THEN player_setPosition(s, 0)
    ELSE IF s.playback_queue_ids = <<>> THEN stop(s)
         ELSE LET p == prev_index(s)
              IN  IF p # -1 THEN player_play(play_track_at_index(s, p))
                  ELSE stop(s)

\* _shuffle_queue, with `shuffled` the order random.shuffle leaves.
shuffle_queue(s, shuffled) ==
    IF Len(s.playback_queue_ids) > 1
    THEN LET current_id == IF s.current_queue_index # -1
                           THEN At(s.playback_queue_ids, s.current_queue_index)
                           ELSE None
         IN  IF Truthy(current_id) /\ current_id \in Range(shuffled)
             THEN LET i == IndexOf(shuffled, current_id)
                      swapped == [shuffled EXCEPT ![1] = shuffled[i + 1],
                                                  ![i + 1] = shuffled[1]]
                  IN  [s EXCEPT !.playback_queue_ids = swapped,
                                !.current_queue_index = 0]
             ELSE [s EXCEPT !.playback_queue_ids = shuffled,
                            !.current_queue_index = 0]
    ELSE [s EXCEPT !.current_queue_index =
                       IF s.playback_queue_ids # <<>> THEN 0 ELSE -1]

\* set_playback_mode rebuilding the queue from the queue itself.
rebuilt_queue_from_queue(s) == s.playback_queue_ids

\* The queue set_playback_mode rebuilds from current_playlist_ids.
rebuilt_queue(s) == s.current_playlist_ids

\* set_playback_mode without the search for the current track in the new queue.
set_playback_mode_keeps_index(s, mode, shuffled) ==
    IF mode = s.playback_mode THEN s
    ELSE LET a == [s EXCEPT !.playback_mode = mode,
                            !.playback_queue_ids = rebuilt_queue(s)]
         IN  emit(emit(a, "queue_changed"), "mode_changed")

\* set_playback_mode without the early return for the mode already set.
set_playback_mode_unguarded(s, mode, shuffled) ==
    LET a == [s EXCEPT !.playback_mode = mode,
                       !.playback_queue_ids = rebuilt_queue(s)]
        b == IF mode = SHUFFLE THEN shuffle_queue(a, shuffled) ELSE a
        c == [b EXCEPT !.current_queue_index =
                           IF b.playback_queue_ids # <<>> THEN 0 ELSE -1]
    IN  emit(emit(c, "queue_changed"), "mode_changed")

\* set_playback_mode restarting the player once the queue is rebuilt.
set_playback_mode_restarts(s, mode, shuffled) ==
    IF mode = s.playback_mode THEN s
    ELSE LET a == [s EXCEPT !.playback_mode = mode,
                            !.playback_queue_ids = rebuilt_queue(s)]
             b == [a EXCEPT !.current_queue_index =
                                IF a.playback_queue_ids # <<>> THEN 0 ELSE -1]
         IN  emit(emit(player_stop(b), "queue_changed"), "mode_changed")

set_playback_mode(s, mode, shuffled) ==
    IF mode = s.playback_mode THEN s
    ELSE LET a == [s EXCEPT !.playback_mode = mode]
             current_id_playing ==
                 IF s.current_queue_index # -1
                 THEN At(s.playback_queue_ids, s.current_queue_index)
                 ELSE None
             b == [a EXCEPT !.playback_queue_ids = rebuilt_queue(s)]
             c == IF mode = SHUFFLE THEN shuffle_queue(b, shuffled) ELSE b
             d == IF Truthy(current_id_playing)
                     /\ current_id_playing \in Range(c.playback_queue_ids)
                  THEN [c EXCEPT !.current_queue_index =
                                     IndexOf(c.playback_queue_ids, current_id_playing)]
                  ELSE IF c.playback_queue_ids # <<>>
                       THEN [c EXCEPT !.current_queue_index = 0]
                       ELSE [c EXCEPT !.current_queue_index = -1]
         IN  emit(emit(d, "queue_changed"), "mode_changed")

on_error(s) == emit_playback_error(s)

\* set_volume storing its argument as it is.
set_volume_no_clamp(v) == v

\* The value set_volume stores in self.volume.
set_volume(v) == Max(0, Min(MaxVolume, v))

\* on_media_status_changed reporting invalid media without scheduling play_next.
on_media_status_changed_reports_only(s, status) ==
    IF status = "End" /\ ~s.playing_next_automatically
    THEN singleShot_play_next([s EXCEPT !.playing_next_automatically = TRUE])
    ELSE IF status = "Invalid"
         THEN emit_playback_error(s)
         ELSE IF status = "Loaded" THEN player_play(s)
              ELSE s

on_media_status_changed(s, status) ==
    IF status = "End" /\ ~s.playing_next_automatically
    THEN singleShot_play_next([s EXCEPT !.playing_next_automatically = TRUE])
    ELSE IF status = "Invalid"
         THEN singleShot_play_next(emit_playback_error(s))
         ELSE IF status = "Loaded" THEN player_play(s)
              ELSE s

\* ---------------------------------------------------------------- actions
\* A handler's result becomes the next state; the counters stay in bounds.
Apply(s) ==
    /\ s.timers <= MaxTimers
    /\ s.errors <= MaxErrors
    /\ current_track' = s.current_track
    /\ current_playlist_ids' = s.current_playlist_ids
    /\ playback_queue_ids' = s.playback_queue_ids
    /\ current_queue_index' = s.current_queue_index
    /\ playback_mode' = s.playback_mode
    /\ playing_next_automatically' = s.playing_next_automatically
    /\ timers' = s.timers
    /\ player_state' = s.player_state
    /\ player_source' = s.player_source
    /\ player_position' = s.player_position
    /\ media_status' = s.media_status
    /\ signals' = s.signals
    /\ commands' = s.commands
    /\ errors' = s.errors
    /\ swept' = s.swept
    /\ retried' = s.retried
    /\ volume' = volume
    /\ files' = files

\* The handler that ran last, its argument, the index it started from and,
\* for play_previous, whether position() was past the restart threshold.
Before(op, arg) ==
    [op |-> op, arg |-> arg, index |-> current_queue_index,
     late |-> op = "play_previous" /\ player_position > RestartThresholdMs]

\* A user command or a player notification starts a new count of errors and
\* tried indices; the deferred play_next calls that follow it continue the count.
Fresh == [Cur EXCEPT !.errors = 0, !.swept = {}, !.retried = FALSE]

\* A run of play_next calls: the calls made in a row, deferred ones not
\* counted, and whether the index was none at some point of the run.
RunStarts == nexts' = 0 /\ halted' = (current_queue_index' = -1)
RunGoesOn(calls) ==
    /\ nexts' = nexts + calls
    /\ halted' = (halted \/ current_queue_index' = -1)

\* Whether a play_next scheduled by an end-of-media notification is still to
\* load a track, after handler op left state s: it is once the notification
\* has scheduled one, and no longer once a source was set or no timer is left.
Due(s, op) ==
    IF "setSource" \in Range(s.commands) \/ s.timers = 0 THEN FALSE
    ELSE awaited \/ (op = "end_of_media" /\ s.timers > timers)

\* A handler other than play_next ran from state s.
Handled(s, op, arg) ==
    /\ Apply(s)
    /\ last' = Before(op, arg)
    /\ origin' = [op |-> op, arg |-> arg]
    /\ awaited' = Due(s, op)
    /\ RunStarts

SetPlaylist ==
    \E ids \in TrackLists, m \in Modes :
      \E start \in IF ids = <<>> THEN {None} ELSE StartIds :
        /\ Handled(set_playlist(Fresh, ids, m, start),
                   IF ids = <<>> THEN "set_playlist_empty" ELSE "set_playlist", start)
        /\ supplied' = IF ids = <<>> THEN supplied ELSE ids

PlayTrackAtIndex ==
    \E index \in -1..MaxLen :
        /\ Handled(play_track_at_index(Fresh, index), "play_track_at_index", index)
        /\ UNCHANGED supplied

Play ==
    /\ Handled(play(Fresh), "play", None)
    /\ UNCHANGED supplied

Pause ==
    /\ Handled(pause(Fresh), "pause", None)
    /\ UNCHANGED supplied

Stop ==
    /\ Handled(stop(Fresh), "stop", None)
    /\ UNCHANGED supplied

PlayNext ==
    /\ nexts <= MaxLen
    /\ Apply(play_next(Fresh))
    /\ last' = Before("play_next", None)
    /\ origin' = [op |-> "play_next", arg |-> None]
    /\ awaited' = Due(play_next(Fresh), "play_next")
    /\ RunGoesOn(1)
    /\ UNCHANGED supplied

PlayPrevious ==
    /\ Handled(play_previous(Fresh), "play_previous", None)
    /\ UNCHANGED supplied

SetPlaybackMode ==
    \E m \in Modes :
        \E shuffled \in Shuffles(rebuilt_queue(Cur)) :
            /\ Handled(set_playback_mode(Fresh, m, shuffled), "set_playback_mode", m)
            /\ UNCHANGED supplied

\* A pending QTimer.singleShot fires and runs play_next.
TimerFires ==
    /\ timers > 0
    /\ Apply(play_next([Cur EXCEPT !.timers = @ - 1]))
    /\ last' = Before("timer", None)
    /\ awaited' = Due(play_next([Cur EXCEPT !.timers = @ - 1]), "timer")
    /\ RunGoesOn(0)
    /\ UNCHANGED <<supplied, origin>>

\* QMediaPlayer finishes loading the source.
MediaLoaded ==
    /\ media_status = "Loading"
    /\ Handled(on_media_status_changed([Fresh EXCEPT !.media_status = "Loaded"], "Loaded"),
               "loaded_media", None)
    /\ UNCHANGED supplied

\* QMediaPlayer cannot decode the source.
MediaInvalid ==
    /\ media_status = "Loading"
    /\ Handled(on_media_status_changed(
                   [Fresh EXCEPT !.media_status = "Invalid", !.player_state = "Stopped"],
                   "Invalid"),
               "invalid_media", None)
    /\ UNCHANGED supplied

\* The playing track reaches its end.
MediaEnds ==
    /\ media_status = "Loaded"
    /\ player_state = "Playing"
    /\ Handled(on_media_status_changed([Fresh EXCEPT !.player_state = "Stopped"], "End"),
               "end_of_media", None)
    /\ UNCHANGED supplied

\* QMediaPlayer.errorOccurred
EngineError ==
    /\ player_source # None
    /\ Handled(on_error(Fresh), "error", None)
    /\ UNCHANGED supplied

\* Playback moves on within the track; positionChanged is relayed as
\* position_changed.
Tick ==
    /\ player_state = "Playing"
    /\ media_status = "Loaded"
    /\ \E p \in Positions :
        /\ p > player_position
        /\ Handled(emit([Fresh EXCEPT !.player_position = p], "position_changed"),
                   "position_changed", None)
    /\ UNCHANGED supplied

Init ==
    /\ current_track = None
    /\ current_playlist_ids = <<>>
    /\ playback_queue_ids = <<>>
    /\ current_queue_index = -1
    /\ playback_mode = REPEAT_ALL
    /\ playing_next_automatically = FALSE
    /\ timers = 0
    /\ player_state = "Stopped"
    /\ player_source = None
    /\ player_position = 0
    /\ media_status = "NoMedia"
    /\ volume = DEFAULT_VOLUME
    /\ files \in FileSets
    /\ signals = <<>>
    /\ commands = <<>>
    /\ errors = 0
    /\ swept = {}
    /\ retried = FALSE
    /\ supplied = <<>>
    /\ nexts = 0
    /\ halted = TRUE
    /\ awaited = FALSE
    /\ origin = [op |-> "init", arg |-> None]
    /\ last = [op |-> "init", arg |-> None, index |-> -1, late |-> FALSE]

Next ==
    \/ SetPlaylist
    \/ PlayTrackAtIndex
    \/ Play
    \/ Pause
    \/ Stop
    \/ PlayNext
    \/ PlayPrevious
    \/ SetPlaybackMode
    \/ TimerFires
    \/ MediaLoaded
    \/ MediaInvalid
    \/ MediaEnds
    \/ EngineError
    \/ Tick

Spec == Init /\ [][Next]_vars

\* play_track(track) with all_track_ids the rows get_all_tracks() returns:
\* set_playlist without a playlist_mode argument, which is then NORMAL.
play_track(s, track_id, all_track_ids) ==
    IF track_id # None
    THEN IF all_track_ids # <<>>
         THEN set_playlist(s, all_track_ids, NORMAL, track_id)
         ELSE set_playlist(s, <<track_id>>, NORMAL, track_id)
    ELSE emit_playback_error(s)

PlayTrack ==
    \E track_id \in StartIds, all_track_ids \in TrackLists :
        /\ Handled(play_track(Fresh, track_id, all_track_ids), "play_track", track_id)
        /\ supplied' = IF track_id = None THEN supplied
                       ELSE IF all_track_ids # <<>> THEN all_track_ids
                            ELSE <<track_id>>

\* The manager with play_track among its commands.
NextPlayTrack == Next \/ PlayTrack

SpecPlayTrack == Init /\ [][NextPlayTrack]_vars

\* set_volume, called by the volume slider and when the window restores its
\* settings: it touches self.volume and the audio output only.
SetVolume ==
    \E v \in Volumes :
        /\ volume' = set_volume(v)
        /\ last' = Before("set_volume", v)
        /\ origin' = [op |-> "set_volume", arg |-> v]
        /\ signals' = <<"volume_changed">>
        /\ commands' = <<>>
        /\ UNCHANGED <<current_track, current_playlist_ids, playback_queue_ids,
                       current_queue_index, playback_mode,
                       playing_next_automatically, timers, player_state,
                       player_source, player_position, media_status, files,
                       errors, swept, retried, supplied, nexts, halted, awaited>>

\* The volume is set between user commands, deferred play_next calls and the
\* end of a load.
NextVolume ==
    \/ SetVolume
    \/ SetPlaylist
    \/ PlayTrackAtIndex
    \/ Play
    \/ Pause
    \/ Stop
    \/ PlayNext
    \/ PlayPrevious
    \/ SetPlaybackMode
    \/ TimerFires
    \/ MediaLoaded

SpecVolume == Init /\ [][NextVolume]_vars

\* ------------------------------------------------------------------ claims
QueueLen == Len(playback_queue_ids)

\* Every track of the queue is unplayable.
AllMissing == playback_queue_ids # <<>> /\ Range(playback_queue_ids) \cap files = {}

\* C1: in every reachable state current_queue_index is -1 or an index of
\* playback_queue_ids.
PositionInRange ==
    \/ current_queue_index = -1
    \/ (0 <= current_queue_index /\ current_queue_index < QueueLen)

\* C1 witness: a deferred play_next left the index on the last track of a
\* queue of several tracks.
PositionInRangeWitness ==
    /\ last.op = "timer"
    /\ QueueLen >= 2
    /\ current_queue_index = QueueLen - 1

\* C2: set_playback_mode(NORMAL) right after set_playback_mode(SHUFFLE), on a
\* queue loaded by set_playlist, leaves the queue equal to the list the caller
\* supplied.
ShuffleThenSequentialRestores ==
    [][(/\ supplied # <<>>
        /\ last.op = "set_playback_mode" /\ last.arg = SHUFFLE
        /\ playback_mode = SHUFFLE
        /\ last'.op = "set_playback_mode" /\ last'.arg = NORMAL)
       => playback_queue_ids' = supplied]_vars

\* C3: set_playback_mode(SHUFFLE) with track T selected leaves T at index 0,
\* the index at 0 and the queue a permutation of the list the caller supplied.
ShuffleKeepsCurrentFirst ==
    [][(/\ current_queue_index # -1
        /\ playback_mode # SHUFFLE
        /\ last'.op = "set_playback_mode" /\ last'.arg = SHUFFLE)
       => (/\ playback_queue_ids' # <<>>
           /\ At(playback_queue_ids', 0) = At(playback_queue_ids, current_queue_index)
           /\ current_queue_index' = 0
           /\ IsPermutation(playback_queue_ids', supplied))]_vars

\* C4: over a queue whose tracks are all unplayable, play_track_at_index or
\* set_playlist and the deferred play_next calls that follow it try no index
\* twice.
SweepTriesEachIndexOnce ==
    (AllMissing /\ origin.op \in {"play_track_at_index", "set_playlist"}) => ~retried

\* C5: when the three tracks of the queue are all missing and
\* play_track_at_index(0) with the deferred play_next calls that follow it
\* has tried every index and ended in stop(), one playback_error was emitted
\* over the sweep.
SweepEmitsOneError ==
    (/\ QueueLen = 3 /\ AllMissing
     /\ origin.op = "play_track_at_index" /\ origin.arg = 0
     /\ last.op = "timer"
     /\ swept = {0, 1, 2}
     /\ current_queue_index = -1 /\ timers = 0)
    => errors = 1

\* C6: after play_track_at_index(i) on an unplayable track followed by a
\* playable one, the deferred play_next that runs next leaves the index at
\* i + 1 with that track current, one playback_error emitted in all.
SkipsToNextPlayable ==
    [][(/\ last.op = "play_track_at_index"
        /\ last.arg = current_queue_index
        /\ current_queue_index # -1
        /\ current_queue_index + 1 < QueueLen
        /\ At(playback_queue_ids, current_queue_index) \notin files
        /\ At(playback_queue_ids, current_queue_index + 1) \in files
        /\ last'.op = "timer")
       => (/\ errors = 1
           /\ errors' = 1
           /\ current_queue_index' = current_queue_index + 1
           /\ current_track' = At(playback_queue_ids, current_queue_index + 1))]_vars

\* C7 as stated: in REPEAT_ALL mode play_next from the last index leaves the
\* index at 0 and play_previous from index 0 leaves it at the last index,
\* whatever the position within the track.
RepeatAllWrapsAtAnyPosition ==
    (playback_mode = REPEAT_ALL /\ playback_queue_ids # <<>>) =>
        /\ (last.op = "play_next" /\ last.index = QueueLen - 1)
               => current_queue_index = 0
        /\ (last.op = "play_previous" /\ last.index = 0)
               => current_queue_index = QueueLen - 1

\* C7 amended: in REPEAT_ALL mode play_next from the last index leaves the
\* index at 0; play_previous from index 0 leaves it at the last index when
\* position() is at most 3000 ms, and otherwise seeks to 0 and leaves the
\* index at 0.
RepeatAllWraps ==
    (playback_mode = REPEAT_ALL /\ playback_queue_ids # <<>>) =>
        /\ (last.op = "play_next" /\ last.index = QueueLen - 1)
               => current_queue_index = 0
        /\ (last.op = "play_previous" /\ last.index = 0 /\ ~last.late)
               => current_queue_index = QueueLen - 1
        /\ (last.op = "play_previous" /\ last.index = 0 /\ last.late)
               => (current_queue_index = 0 /\ player_position = 0)

\* C7 witness: play_previous wrapped from index 0 to the end of a queue of
\* several tracks.
RepeatAllWrapsWitness ==
    /\ playback_mode = REPEAT_ALL
    /\ last.op = "play_previous" /\ last.index = 0 /\ ~last.late
    /\ QueueLen >= 2
    /\ current_queue_index = QueueLen - 1

SequentialNextReachesStop ==
    (playback_mode = NORMAL /\ nexts >= QueueLen) => halted

\* C9 witness: the play_next call that completes a run of as many calls as the
\* queue has tracks ends in stop().
SequentialNextReachesStopWitness ==
    /\ playback_mode = NORMAL
    /\ last.op = "play_next"
    /\ QueueLen >= 2
    /\ nexts = QueueLen
    /\ last.index = QueueLen - 1
    /\ current_queue_index = -1

\* C10: in NORMAL mode play_next at an index p before the last leaves the
\* index at p + 1 and, the track there being playable, that track loaded and
\* playing; play_next at the last index stops the player and leaves no index
\* and no current track. set_playlist([1,2,3], NORMAL, 2) leaves the index at 1.
SequentialNextSteps ==
    /\ (playback_mode = NORMAL /\ last.op = "play_next" /\ playback_queue_ids # <<>>) =>
          /\ (0 <= last.index /\ last.index < QueueLen - 1) =>
                /\ current_queue_index = last.index + 1
                /\ At(playback_queue_ids, current_queue_index) \in files =>
                      /\ current_track = At(playback_queue_ids, current_queue_index)
                      /\ player_source = current_track
                      /\ player_state = "Playing"
                      /\ "track_changed" \in Range(signals)
          /\ last.index = QueueLen - 1 =>
                /\ current_queue_index = -1
                /\ current_track = None
                /\ player_state = "Stopped"
    /\ (last.op = "set_playlist" /\ last.arg = 2 /\ playback_queue_ids = <<1, 2, 3>>
        /\ playback_mode = NORMAL)
          => current_queue_index = 1

\* C10 witness: the scenario's last step, play_next at index 2 of [1,2,3] with
\* every file present.
SequentialNextStepsWitness ==
    /\ playback_mode = NORMAL
    /\ files = Ids
    /\ playback_queue_ids = <<1, 2, 3>>
    /\ last.op = "play_next" /\ last.index = 2
    /\ current_queue_index = -1

\* C11: after set_playlist with a non-empty list, the index is that of the
\* first occurrence of start_track_id in the queue when the queue holds it,
\* so that the queue has start_track_id at the index, and 0 when
\* start_track_id is None or not in the queue.
StartIndexIsFirstOccurrence ==
    last.op = "set_playlist" =>
        IF last.arg # None /\ last.arg \in Range(playback_queue_ids)
        THEN /\ 0 <= current_queue_index /\ current_queue_index < QueueLen
             /\ At(playback_queue_ids, current_queue_index) = last.arg
             /\ \A j \in 0..(current_queue_index - 1) :
                    At(playback_queue_ids, j) # last.arg
        ELSE current_queue_index = 0

\* C11 witness: set_playlist started at a track the list holds twice, and the
\* index is that of the first of the two.
StartIndexIsFirstOccurrenceWitness ==
    /\ last.op = "set_playlist"
    /\ last.arg # None
    /\ Count(playback_queue_ids, last.arg) = 2
    /\ QueueLen = 3
    /\ current_queue_index = 0

\* C12: set_playlist with an empty list leaves the queue, the index, the mode,
\* the current track, the pending timers and the player as they were, emits
\* no signal and sends the player no command.
EmptyPlaylistRejected ==
    [][last'.op = "set_playlist_empty" =>
          /\ UNCHANGED <<playback_queue_ids, current_queue_index, playback_mode,
                         current_track, current_playlist_ids,
                         playing_next_automatically, timers, player_state,
                         player_source, player_position, media_status>>
          /\ signals' = <<>>
          /\ commands' = <<>>]_vars

\* C12 witness: set_playlist with an empty list was called while a track of a
\* queue in REPEAT_ONE mode was playing.
EmptyPlaylistRejectedWitness ==
    /\ last.op = "set_playlist_empty"
    /\ QueueLen >= 2
    /\ current_queue_index = 1
    /\ playback_mode = REPEAT_ONE
    /\ player_state = "Playing"

\* C13: play_track_at_index with an index below 0 or not below the length of
\* the queue stops the player, leaves no index and no current track, emits
\* track_changed(None) and leaves the queue and the mode as they were.
InvalidIndexStops ==
    [][(/\ last'.op = "play_track_at_index"
        /\ (last'.arg < 0 \/ last'.arg >= QueueLen))
       => (/\ commands' = <<"stop">>
           /\ player_state' = "Stopped"
           /\ current_queue_index' = -1
           /\ current_track' = None
           /\ signals' = <<"track_changed_None">>
           /\ UNCHANGED <<playback_queue_ids, playback_mode>>)]_vars

\* C13 witness: play_track_at_index was called with the length of the queue
\* while a track was selected.
InvalidIndexStopsWitness ==
    /\ last.op = "play_track_at_index"
    /\ QueueLen >= 2
    /\ last.arg = QueueLen
    /\ last.index >= 0
    /\ current_queue_index = -1
    /\ player_source # None

\* C14: the handler of the player's errorOccurred emits playback_error and
\* schedules a deferred play_next.
EngineErrorSchedulesAdvance ==
    [][last'.op = "error" =>
          /\ "playback_error" \in Range(signals')
          /\ timers' = timers + 1]_vars

\* C15: set_playback_mode with the mode already set leaves the queue, the
\* index, the mode and current_playlist_ids as they were and emits neither
\* queue_changed nor mode_changed.
SameModeIsNoOp ==
    [][(last'.op = "set_playback_mode" /\ last'.arg = playback_mode)
       => (/\ UNCHANGED <<playback_queue_ids, current_queue_index,
                          playback_mode, current_playlist_ids>>
           /\ "queue_changed" \notin Range(signals')
           /\ "mode_changed" \notin Range(signals'))]_vars

\* C15 witness: set_playback_mode was called with the mode already set while
\* a track of a queue was selected.
SameModeIsNoOpWitness ==
    /\ last.op = "set_playback_mode"
    /\ last.arg = playback_mode
    /\ signals = <<>>
    /\ QueueLen >= 2
    /\ current_queue_index = last.index
    /\ current_queue_index >= 1

\* C16: set_playback_mode with another mode sends the player no command and
\* leaves its state, source, position and media status, the current track and
\* the pending timers as they were; it sets the mode and emits queue_changed
\* and then mode_changed, once each and nothing else.
ModeChangeLeavesPlayer ==
    [][(last'.op = "set_playback_mode" /\ last'.arg # playback_mode)
       => (/\ commands' = <<>>
           /\ UNCHANGED <<player_state, player_source, player_position,
                          media_status, current_track, timers,
                          playing_next_automatically, current_playlist_ids>>
           /\ playback_mode' = last'.arg
           /\ signals' = <<"queue_changed", "mode_changed">>)]_vars

\* C16 witness: the mode was changed while the player was paused on a track.
ModeChangeLeavesPlayerWitness ==
    /\ last.op = "set_playback_mode"
    /\ signals = <<"queue_changed", "mode_changed">>
    /\ last.index >= 0
    /\ player_state = "Paused"
    /\ current_track # None

\* C17: stop() while the player is playing or paused stops the player, leaves
\* no index and no current track, emits track_changed(None) and leaves the
\* queue and the mode as they were.
StopKeepsQueue ==
    [][(last'.op = "stop" /\ player_state \in {"Playing", "Paused"})
       => (/\ commands' = <<"stop">>
           /\ player_state' = "Stopped"
           /\ current_track' = None
           /\ current_queue_index' = -1
           /\ signals' = <<"track_changed_None">>
           /\ UNCHANGED <<playback_queue_ids, playback_mode>>)]_vars

\* C17 witness: stop() was called on the last track of a queue of several
\* tracks in SHUFFLE mode, which is still the queue.
StopKeepsQueueWitness ==
    /\ last.op = "stop"
    /\ QueueLen >= 2
    /\ last.index = QueueLen - 1
    /\ playback_mode = SHUFFLE
    /\ current_queue_index = -1
    /\ player_source # None

\* C18: self.volume is always within 0..100; set_volume(v) stores 0 for v
\* below 0, 100 for v above 100 and v otherwise, and leaves the queue, the
\* index and the mode as they were.
VolumeClamped ==
    [][/\ 0 <= volume /\ volume <= MaxVolume
       /\ 0 <= volume' /\ volume' <= MaxVolume
       /\ last'.op = "set_volume" =>
             /\ volume' = IF last'.arg < 0 THEN 0
                          ELSE IF last'.arg > MaxVolume THEN MaxVolume
                          ELSE last'.arg
             /\ UNCHANGED <<playback_queue_ids, current_queue_index,
                            playback_mode>>]_vars

\* C18 witness: set_volume was called with a volume above the range while a
\* track of a queue was selected.
VolumeClampedWitness ==
    /\ last.op = "set_volume"
    /\ last.arg > MaxVolume
    /\ volume = MaxVolume
    /\ QueueLen >= 2
    /\ current_queue_index >= 1

\* C19: a handler that found the selected track unplayable, and so emitted
\* playback_error for it, sends the player no play().
NoPlayOnUnplayable ==
    (/\ last.op \in {"set_playlist", "play_track_at_index", "play", "play_next",
                     "play_previous", "timer"}
     /\ "playback_error" \in Range(signals))
    => "play" \notin Range(commands)

\* C20: an end-of-media notification schedules one deferred play_next, unless
\* a play_next scheduled by an earlier one is still to load a track, when it
\* schedules none.
EndOfMediaSchedulesOnce ==
    [][last'.op = "end_of_media" =>
          timers' = IF awaited THEN timers ELSE timers + 1]_vars

\* The index the next/previous rule of a mode gives for "next" from index p
\* of a queue of n tracks (-1 for stop()).
ModeRuleNext(mode, p, n) ==
    IF mode = REPEAT_ONE THEN p
    ELSE IF p + 1 < n THEN p + 1
         ELSE IF mode = NORMAL THEN -1 ELSE 0

PreviousInsideQueue ==
    (last.op = "play_previous" /\ last.index > 0 /\ playback_mode # REPEAT_ONE) =>
        IF last.late
        THEN /\ current_queue_index = last.index
             /\ player_position = 0
             /\ commands = <<"setPosition">>
        ELSE /\ current_queue_index = last.index - 1
             /\ At(playback_queue_ids, current_queue_index) \in files =>
                   /\ current_track = At(playback_queue_ids, current_queue_index)
                   /\ player_source = current_track
                   /\ "setSource" \in Range(commands)
                   /\ player_state = "Playing"

\* C22 witness: play_previous restarted the last track of a queue of three,
\* more than 3000 ms in, in SHUFFLE mode.
PreviousInsideQueueWitness ==
    /\ last.op = "play_previous" /\ last.late
    /\ playback_mode = SHUFFLE
    /\ QueueLen = 3
    /\ last.index = 2
    /\ current_queue_index = 2
    /\ player_position = 0

\* C23: in NORMAL mode play_previous at index 0 leaves the index at 0 and
\* sends the player no stop(): past 3000 ms it seeks to 0, otherwise it loads
\* the track at index 0 again and, that track being playable, plays it from 0.
SequentialPreviousAtStart ==
    (last.op = "play_previous" /\ last.index = 0 /\ playback_mode = NORMAL) =>
        /\ current_queue_index = 0
        /\ "stop" \notin Range(commands)
        /\ IF last.late
           THEN commands = <<"setPosition">> /\ player_position = 0
           ELSE At(playback_queue_ids, 0) \in files =>
                   /\ current_track = At(playback_queue_ids, 0)
                   /\ player_source = current_track
                   /\ player_state = "Playing"
                   /\ player_position = 0

\* C23 witness: play_previous at index 0 of a queue of several tracks in
\* NORMAL mode, early in the track, left the first track playing.
SequentialPreviousAtStartWitness ==
    /\ last.op = "play_previous" /\ last.index = 0 /\ ~last.late
    /\ playback_mode = NORMAL
    /\ QueueLen >= 2
    /\ current_queue_index = 0
    /\ player_state = "Playing"

\* C24 as stated: play() while paused makes the player play without a load
\* and leaves the index; play() while stopped with a non-empty queue leaves
\* the index when one is set and sets it to 0 otherwise; play() with an empty
\* queue changes nothing and sends the player no command.
PlayResumesAtPosition ==
    [][last'.op = "play" =>
          /\ player_state = "Paused" =>
                /\ "setSource" \notin Range(commands')
                /\ current_queue_index' = current_queue_index
          /\ (player_state = "Stopped" /\ playback_queue_ids # <<>>) =>
                current_queue_index' =
                    IF current_queue_index # -1 THEN current_queue_index ELSE 0
          /\ playback_queue_ids = <<>> =>
                /\ commands' = <<>>
                /\ UNCHANGED <<current_queue_index, current_track, player_state,
                               player_source, timers>>]_vars

\* C24 amended: play() while paused sends the player play() and nothing else,
\* whatever the queue; otherwise, with an index set and a current track, it
\* sends play(), emits track_changed and leaves the index; otherwise, with a
\* non-empty queue, it selects index 0, also from an index whose track was
\* unplayable; otherwise it changes nothing and sends no command.
PlayResumesCurrentTrack ==
    [][last'.op = "play" =>
          IF player_state = "Paused"
          THEN /\ commands' = <<"play">>
               /\ player_state' = "Playing"
               /\ UNCHANGED <<current_queue_index, current_track, player_source>>
          ELSE IF current_queue_index # -1 /\ current_track # None
               THEN /\ commands' = <<"play">>
                    /\ signals' = <<"track_changed">>
                    /\ UNCHANGED <<current_queue_index, current_track, player_source>>
               ELSE IF playback_queue_ids # <<>>
                    THEN /\ current_queue_index' = 0
                         /\ At(playback_queue_ids, 0) \in files =>
                               /\ current_track' = At(playback_queue_ids, 0)
                               /\ player_source' = current_track'
                               /\ player_state' = "Playing"
                    ELSE /\ commands' = <<>>
                         /\ signals' = <<>>
                         /\ UNCHANGED <<current_queue_index, current_track,
                                        player_state, player_source, timers>>]_vars

\* C24 witness: play() on a player that was not paused resumed the current
\* track at an index past the first.
PlayResumesCurrentTrackWitness ==
    /\ last.op = "play"
    /\ last.index >= 1
    /\ current_queue_index = last.index
    /\ commands = <<"play">>
    /\ signals = <<"track_changed">>
    /\ player_state = "Playing"

CurrentTrackAtIndex ==
    current_track # None =>
        /\ current_queue_index # -1
        /\ current_queue_index < QueueLen
        /\ At(playback_queue_ids, current_queue_index) = current_track

\* C27: when stop() ran with a deferred play_next pending and the timer fires
\* next, the index stays none and the player is sent neither a source nor
\* play().
StopOutlivesTimer ==
    [][(last.op = "stop" /\ timers > 0 /\ last'.op = "timer")
       => (/\ current_queue_index' = -1
           /\ current_track' = None
           /\ "setSource" \notin Range(commands')
           /\ "play" \notin Range(commands'))]_vars

\* C28: when a user command has loaded a track while a play_next scheduled
\* earlier was pending, the timer firing next leaves the index where the
\* command put it.
TimerOnlyForItsTrack ==
    [][(/\ last.op \in {"play_next", "play_previous", "play_track_at_index",
                        "set_playlist"}
        /\ "setSource" \in Range(commands)
        /\ timers > 0
        /\ last'.op = "timer")
       => current_queue_index' = current_queue_index]_vars

\* C29: with no deferred play_next pending, _playing_next_automatically is
\* False.
FlagOnlyWhilePending ==
    timers = 0 => ~playing_next_automatically

\* C30: play_track, which calls set_playlist without a playlist_mode
\* argument, leaves the mode as it was.
PlayTrackKeepsMode ==
    [][last'.op = "play_track" => playback_mode' = playback_mode]_vars

====
